---- MODULE Spec2Model ----
(***************************************************************************)
(* Model of src/main.cpp: Particle, ParticleSystem and the host loop of    *)
(* main().                                                                 *)
(*                                                                         *)
(* Number representation.  The program computes in float.  Here every     *)
(* position, velocity, radius and time step is a fixed-point integer with  *)
(* Q steps per unit (x = 57 stands for 5.7), dimensionless factors and     *)
(* forces have FQ = Q*Q steps per unit, and every arithmetic result is     *)
(* rounded toward zero; sqrt is rounded down.  mass = radius * radius is   *)
(* therefore held with FQ steps per unit.                                  *)
(***************************************************************************)
EXTENDS Integers, Sequences, FiniteSets, TLC

VARIABLES
    particles,    \* ParticleSystem::particles, a sequence of Particle records
    connections,  \* ParticleSystem::connections, a sequence of segments
    window,       \* what the last ParticleSystem::draw put on the window
    isOpen,       \* window.isOpen()
    pc,           \* position of the host loop / of the direct-call harness
    idx,          \* index of `particle` in the outer loop of update
    dt,           \* the dt of the running frame
    frame,        \* number of frames drawn
    atEntry,      \* particles on entry to ParticleSystem::update
    pEntry,       \* the particle on entry to the last Particle::update
    mid,          \* the particle after line 30 of the last Particle::update
    applied,      \* per other particle, what the last inner loop applied
    lastSpawn     \* the last addParticlesAtMouse call of this event phase

vars == <<particles, connections, window, isOpen, pc, idx, dt, frame,
          atEntry, pEntry, mid, applied, lastSpawn>>

----------------------------------------------------------------------------
(* Number representation *)

Q == 10
FQ == Q * Q
Hundred == 100
Thousand == 1000

\* a / b rounded toward zero, b > 0
TDiv(a, b) == IF a >= 0 THEN a \div b ELSE -((-a) \div b)

RECURSIVE SqrtSearch(_, _, _)
SqrtSearch(n, lo, hi) ==
    IF lo >= hi THEN lo
    ELSE LET m == (lo + hi + 1) \div 2
         IN IF m * m <= n THEN SqrtSearch(n, m, hi) ELSE SqrtSearch(n, lo, m - 1)

\* std::sqrt, rounded down
Sqrt(n) == SqrtSearch(n, 0, IF n < 46340 THEN n ELSE 46340)

----------------------------------------------------------------------------
(* Program constants (lines 7-13) and literals *)

WIDTH == 1200
HEIGHT == 800
GRAVITY == 981            \* 9.81f, in hundredths
DAMPING == 99             \* 0.99f, in hundredths
ATTRACTION == 50
REPULSION == 10
MAX_SPEED == 500
INTERACTION_RADIUS == 100 \* literal of line 126
CONNECT_RADIUS == 100     \* literal of line 147
SPAWN_RADIUS == 50        \* literal of line 166
RADIUS_BASE == 3          \* literal of line 169
RADIUS_SPAN == 5          \* literal of line 169
RAND_MAX == 24            \* rand() ranges over 0..RAND_MAX; scaled down so
                          \* that rand()/RAND_MAX*2*M_PI is a multiple of 15 degrees

----------------------------------------------------------------------------
(* Bounds of the model *)

MaxFrames == 2       \* frames the host loop runs
MaxParticles == 3    \* particles the collection may hold
SpawnCount == 1      \* count passed to addParticlesAtMouse by the host loop

----------------------------------------------------------------------------
(* class Particle *)

\* variant: mass(r)
Particle_LinearMass(x, y, r) ==
    [x |-> x, y |-> y, vx |-> 0, vy |-> 0, radius |-> r, mass |-> r]

\* Particle::Particle(x, y, r): velocity(0, 0), mass(r * r)
Particle(x, y, r) ==
    [x |-> x, y |-> y, vx |-> 0, vy |-> 0, radius |-> r, mass |-> r * r]

\* std::sqrt(vel.x * vel.x + vel.y * vel.y), lines 57 and 67
Speed(vx, vy) == Sqrt(vx * vx + vy * vy)

\* variant: the clamp is missing
limitVelocity_NoClamp(vx, vy) == <<vx, vy>>

\* Particle::limitVelocity
limitVelocity(vx, vy) ==
    LET speed == Speed(vx, vy)
    IN IF speed > MAX_SPEED * Q
       THEN <<TDiv(vx * MAX_SPEED * Q, speed), TDiv(vy * MAX_SPEED * Q, speed)>>
       ELSE <<vx, vy>>

\* -v * DAMPING, lines 34, 37, 42, 45
Bounce(v) == TDiv((-v) * DAMPING, Hundred)

\* variant: velocity.y += GRAVITY, not scaled by dt
Integrate_UnscaledGravity(p, d) ==
    LET vy1 == p.vy + TDiv(GRAVITY * Q, Hundred)
        v == limitVelocity(p.vx, vy1)
    IN [p EXCEPT !.vx = v[1], !.vy = v[2],
                 !.x = p.x + TDiv(v[1] * d, Q),
                 !.y = p.y + TDiv(v[2] * d, Q)]

\* Particle::update, lines 28-30: gravity, clamp, integration
Integrate(p, d) ==
    LET vy1 == p.vy + TDiv(GRAVITY * d, Hundred)
        v == limitVelocity(p.vx, vy1)
    IN [p EXCEPT !.vx = v[1], !.vy = v[2],
                 !.x = p.x + TDiv(v[1] * d, Q),
                 !.y = p.y + TDiv(v[2] * d, Q)]

\* variant: the bounce off the side walls is not damped
BounceX_NoDamping(p) ==
    IF p.x - p.radius < 0
    THEN [p EXCEPT !.x = p.radius, !.vx = -p.vx]
    ELSE IF p.x + p.radius > WIDTH * Q
         THEN [p EXCEPT !.x = WIDTH * Q - p.radius, !.vx = -p.vx]
         ELSE p

\* Particle::update, lines 32-38: left and right wall
BounceX(p) ==
    IF p.x - p.radius < 0
    THEN [p EXCEPT !.x = p.radius, !.vx = Bounce(p.vx)]
    ELSE IF p.x + p.radius > WIDTH * Q
         THEN [p EXCEPT !.x = WIDTH * Q - p.radius, !.vx = Bounce(p.vx)]
         ELSE p

\* variant: the bottom wall is not checked
BounceY_NoBottom(p) ==
    IF p.y - p.radius < 0
    THEN [p EXCEPT !.y = p.radius, !.vy = Bounce(p.vy)]
    ELSE p

\* Particle::update, lines 40-46: top and bottom wall
BounceY(p) ==
    IF p.y - p.radius < 0
    THEN [p EXCEPT !.y = p.radius, !.vy = Bounce(p.vy)]
    ELSE IF p.y + p.radius > HEIGHT * Q
         THEN [p EXCEPT !.y = HEIGHT * Q - p.radius, !.vy = Bounce(p.vy)]
         ELSE p

\* Particle::update
ParticleUpdate(p, d) == BounceY(BounceX(Integrate(p, d)))

\* Particle::applyForce: velocity += force * (dt / mass).  force and mass both
\* have FQ steps per unit, so the quotient has the Q steps of a velocity.
applyForce(p, f, d) ==
    [p EXCEPT !.vx = p.vx + TDiv(f[1] * d, p.mass),
              !.vy = p.vy + TDiv(f[2] * d, p.mass)]

\* Particle::draw: the circle and its hue, lines 54-58
Circle(p) ==
    [x |-> p.x - p.radius, y |-> p.y - p.radius, radius |-> p.radius,
     hue |-> TDiv(Speed(p.vx, p.vy) * 360, MAX_SPEED * Q)]

----------------------------------------------------------------------------
(* class ParticleSystem *)

\* ParticleSystem::addParticle
addParticle(ps, x, y, r) == Append(ps, Particle(x, y, r))

\* distance of lines 123-124 and 143-146
Distance(p, o) == Sqrt((o.x - p.x) * (o.x - p.x) + (o.y - p.y) * (o.y - p.y))

\* variant: the two terms exchanged
Strength_Swapped(dist) ==
    TDiv(REPULSION * Q * FQ, dist) - TDiv(ATTRACTION * Q * Q * FQ, dist * dist)

\* ATTRACTION / (distance * distance) - REPULSION / distance, line 128
Strength(dist) ==
    TDiv(ATTRACTION * Q * Q * FQ, dist * dist) - TDiv(REPULSION * Q * FQ, dist)

\* variant: distance <= 100
PairForce_Inclusive(p, o) ==
    LET dist == Distance(p, o)
    IN IF dist > 0 /\ dist <= INTERACTION_RADIUS * Q
       THEN LET ux == TDiv((o.x - p.x) * FQ, dist)
                uy == TDiv((o.y - p.y) * FQ, dist)
                s == Strength(dist)
            IN [hit |-> TRUE, strength |-> s,
                force |-> <<TDiv(ux * s, FQ), TDiv(uy * s, FQ)>>]
       ELSE [hit |-> FALSE, strength |-> 0, force |-> <<0, 0>>]

\* lines 123-130 for one `other`: the force applied to `p`, if any
PairForce(p, o) ==
    LET dist == Distance(p, o)
    IN IF dist > 0 /\ dist < INTERACTION_RADIUS * Q
       THEN LET ux == TDiv((o.x - p.x) * FQ, dist)
                uy == TDiv((o.y - p.y) * FQ, dist)
                s == Strength(dist)
            IN [hit |-> TRUE, strength |-> s,
                force |-> <<TDiv(ux * s, FQ), TDiv(uy * s, FQ)>>]
       ELSE [hit |-> FALSE, strength |-> 0, force |-> <<0, 0>>]

\* the inner loop of ParticleSystem::update, lines 121-132, for particle i:
\* `other` runs through the collection in order
RECURSIVE InnerLoop(_, _, _, _)
InnerLoop(ps, i, j, d) ==
    IF j > Len(ps) THEN ps[i]
    ELSE IF j = i THEN InnerLoop(ps, i, j + 1, d)
    ELSE LET pf == PairForce(ps[i], ps[j])
             p1 == IF pf.hit THEN applyForce(ps[i], pf.force, d) ELSE ps[i]
         IN InnerLoop([ps EXCEPT ![i] = p1], i, j + 1, d)

\* what the inner loop computed for each `other` (none for the particle itself)
AppliedTo(ps, i) ==
    [j \in 1..Len(ps) |->
        IF j = i THEN [hit |-> FALSE, strength |-> 0, force |-> <<0, 0>>]
        ELSE PairForce(ps[i], ps[j])]

\* static_cast<sf::Uint8>(255 * (1 - distance / 100)), line 148
Alpha(dist) == TDiv(255 * (CONNECT_RADIUS * Q - dist), CONNECT_RADIUS * Q)

\* the loops of ParticleSystem::updateConnections, lines 141-153
RECURSIVE ConnectLoop(_, _, _, _)
ConnectLoop(ps, i, j, acc) ==
    IF i > Len(ps) THEN acc
    ELSE IF j > Len(ps) THEN ConnectLoop(ps, i + 1, i + 2, acc)
    ELSE LET dist == Distance(ps[i], ps[j])
         IN ConnectLoop(ps, i, j + 1,
                IF dist < CONNECT_RADIUS * Q
                THEN Append(acc, [ax |-> ps[i].x, ay |-> ps[i].y,
                                  bx |-> ps[j].x, by |-> ps[j].y,
                                  alpha |-> Alpha(dist)])
                ELSE acc)

\* variant: connections.clear() is missing
updateConnections_NoClear(ps) == ConnectLoop(ps, 1, 2, connections)

\* ParticleSystem::updateConnections: clear, then the loops
updateConnections(ps) == ConnectLoop(ps, 1, 2, <<>>)

\* std::cos of rand() / RAND_MAX * 2 * M_PI: the angle is k * 15 degrees
CosTable == <<1000, 965, 866, 707, 500, 258, 0>>
Cos(k) ==
    LET m == k % 24
        c == IF m <= 6 THEN CosTable[m + 1]
             ELSE IF m <= 12 THEN -CosTable[12 - m + 1]
             ELSE IF m <= 18 THEN -CosTable[m - 12 + 1]
             ELSE CosTable[24 - m + 1]
    IN TDiv(c * FQ, Thousand)

\* std::sin of the same angle
Sin(k) == Cos(k + 18)

\* variant: the offset is drawn from twice the spawn radius
SpawnOne_Diameter(ps, mouse, r) ==
    LET distance == TDiv(r[2] * 2 * SPAWN_RADIUS * Q, RAND_MAX)
        x == mouse[1] * Q + TDiv(Cos(r[1]) * distance, FQ)
        y == mouse[2] * Q + TDiv(Sin(r[1]) * distance, FQ)
    IN addParticle(ps, x, y, RADIUS_BASE * Q + TDiv(r[3] * RADIUS_SPAN * Q, RAND_MAX))

\* one iteration of ParticleSystem::addParticlesAtMouse, lines 165-169;
\* r is the triple of rand() results
SpawnOne(ps, mouse, r) ==
    LET distance == TDiv(r[2] * SPAWN_RADIUS * Q, RAND_MAX)
        x == mouse[1] * Q + TDiv(Cos(r[1]) * distance, FQ)
        y == mouse[2] * Q + TDiv(Sin(r[1]) * distance, FQ)
    IN addParticle(ps, x, y, RADIUS_BASE * Q + TDiv(r[3] * RADIUS_SPAN * Q, RAND_MAX))

\* ParticleSystem::addParticlesAtMouse; rs[i] is the rand() triple of iteration i
RECURSIVE SpawnLoop(_, _, _, _, _)
SpawnLoop(ps, mouse, count, rs, i) ==
    IF i > count THEN ps
    ELSE SpawnLoop(SpawnOne(ps, mouse, rs[i]), mouse, count, rs, i + 1)

addParticlesAtMouse(ps, mouse, count, rs) == SpawnLoop(ps, mouse, count, rs, 1)

----------------------------------------------------------------------------
(* Inputs *)

\* main, lines 183-185: (x, y, radius) of the particles added at start-up;
\* x and y are drawn from [0, WIDTH), radius is 3 + [0, WIDTH) / 100
InitPoints ==
    { <<0, 10000, 30>>, <<6000, 4000, 149>>, <<6001, 4000, 30>> }

\* sf::Mouse::getPosition(window), in pixels
MousePoints == { <<600, 400>>, <<10, 790>> }

\* rand() results used for the angle, the distance and the radius
RandAngle == { 15, RAND_MAX }
RandDist == { 0, RAND_MAX }
RandRadius == { 0, RAND_MAX }

\* clock.restart().asSeconds(), in steps of 1 / Q second
DtSet == { 0, 10 }

NoSpawn == [count |-> 0, mouse |-> <<0, 0>>, prior |-> <<>>]
NoForce == [hit |-> FALSE, strength |-> 0, force |-> <<0, 0>>]

----------------------------------------------------------------------------
(* The host loop of main() *)

Init ==
    /\ \E a \in InitPoints, b \in InitPoints :
          particles = addParticle(addParticle(<<>>, a[1], a[2], a[3]), b[1], b[2], b[3])
    /\ connections = <<>>
    /\ window = [lines |-> <<>>, circles |-> <<>>]
    /\ isOpen = TRUE
    /\ pc = "events"
    /\ idx = 1
    /\ dt = 0
    /\ frame = 0
    /\ atEntry = particles
    /\ pEntry = Particle(0, 0, RADIUS_BASE * Q)
    /\ mid = Particle(0, 0, RADIUS_BASE * Q)
    /\ applied = <<>>
    /\ lastSpawn = NoSpawn

\* lines 193-196: a left click spawns particles at the mouse position
MousePressed ==
    /\ pc = "events" /\ isOpen
    /\ Len(particles) + SpawnCount <= MaxParticles
    /\ \E mouse \in MousePoints,
          rs \in [1..SpawnCount -> RandAngle \X RandDist \X RandRadius] :
          /\ particles' = addParticlesAtMouse(particles, mouse, SpawnCount, rs)
          /\ lastSpawn' = [count |-> SpawnCount, mouse |-> mouse, prior |-> particles]
    /\ UNCHANGED <<connections, window, isOpen, pc, idx, dt, frame,
                   atEntry, pEntry, mid, applied>>

\* lines 191-192: window.close(); the running iteration still updates and draws
Closed ==
    /\ pc = "events" /\ isOpen
    /\ isOpen' = FALSE
    /\ UNCHANGED <<particles, connections, window, pc, idx, dt, frame,
                   atEntry, pEntry, mid, applied, lastSpawn>>

\* line 200 and the entry to ParticleSystem::update, line 119
ClockRestart ==
    /\ pc = "events"
    /\ frame < MaxFrames
    /\ \E d \in DtSet : dt' = d
    /\ atEntry' = particles
    /\ idx' = 1
    /\ pc' = IF Len(particles) = 0 THEN "connect" ELSE "force"
    /\ lastSpawn' = NoSpawn
    /\ UNCHANGED <<particles, connections, window, isOpen, frame, pEntry, mid, applied>>

\* lines 121-132 for particles[i]
ForcePass(i) ==
    /\ particles' = [particles EXCEPT ![i] = InnerLoop(particles, i, 1, dt)]
    /\ applied' = AppliedTo(particles, i)

\* line 133 for particles[i]
UpdateCall(i) ==
    /\ pEntry' = particles[i]
    /\ mid' = Integrate(particles[i], dt)
    /\ particles' = [particles EXCEPT ![i] = ParticleUpdate(particles[i], dt)]

ApplyForces ==
    /\ pc = "force"
    /\ ForcePass(idx)
    /\ pc' = "integrate"
    /\ UNCHANGED <<connections, window, isOpen, idx, dt, frame, atEntry,
                   pEntry, mid, lastSpawn>>

IntegrateStep ==
    /\ pc = "integrate"
    /\ UpdateCall(idx)
    /\ IF idx < Len(particles)
       THEN idx' = idx + 1 /\ pc' = "force"
       ELSE idx' = idx /\ pc' = "connect"
    /\ UNCHANGED <<connections, window, isOpen, dt, frame, atEntry, applied, lastSpawn>>

\* line 136
ConnectStep ==
    /\ pc = "connect"
    /\ connections' = updateConnections(particles)
    /\ pc' = "draw"
    /\ UNCHANGED <<particles, window, isOpen, idx, dt, frame, atEntry,
                   pEntry, mid, applied, lastSpawn>>

\* ParticleSystem::draw, lines 204-206, and the loop test of line 188
Draw ==
    /\ pc = "draw"
    /\ window' = [lines |-> connections,
                  circles |-> [k \in 1..Len(particles) |-> Circle(particles[k])]]
    /\ frame' = frame + 1
    /\ pc' = IF isOpen THEN "events" ELSE "done"
    /\ UNCHANGED <<particles, connections, isOpen, idx, dt, atEntry,
                   pEntry, mid, applied, lastSpawn>>

Next ==
    \/ MousePressed
    \/ Closed
    \/ ClockRestart
    \/ ApplyForces
    \/ IntegrateStep
    \/ ConnectStep
    \/ Draw

Spec == Init /\ [][Next]_vars

----------------------------------------------------------------------------
(* Direct calls on a pair of particles: the inner loop of update for the   *)
(* first particle and Particle::update on it, for any position and         *)
(* velocity the public fields can hold                                     *)

UnitVel == { -9000, -3000, -40, 0, 2500, 7000 }
UnitPosX == { 20, 100, 11990 }
UnitPosY == { 10, 4000, 7960 }
UnitOff == { -1, 0, 1, 30, 40, 49, 51, 600, 999, 1000 }
UnitRadius == { 30, 80 }
UnitDt == { -5, 0, 1, 10 }
AllDist == 0 .. 1002

UnitPair(x, y, vx, vy, r, dx, dy) ==
    << [Particle(x, y, r) EXCEPT !.vx = vx, !.vy = vy],
       Particle(x + dx, y + dy, RADIUS_BASE * Q) >>

UnitInit ==
    /\ \/ \E x \in UnitPosX, y \in UnitPosY, vx \in UnitVel, vy \in UnitVel,
             r \in UnitRadius, dx \in UnitOff, dy \in { 0, 40 } :
             particles = UnitPair(x, y, vx, vy, r, dx, dy)
       \/ \E dx \in AllDist, dy \in { 0, 7 }, vx \in { 0, 4990 } :
             particles = UnitPair(6000, 4000, vx, 0, 30, dx, dy)
    /\ \E d \in UnitDt : dt = d
    /\ connections = <<>>
    /\ window = [lines |-> <<>>, circles |-> <<>>]
    /\ isOpen = TRUE
    /\ pc = "unit"
    /\ idx = 1
    /\ frame = 0
    /\ atEntry = particles
    /\ pEntry = Particle(0, 0, RADIUS_BASE * Q)
    /\ mid = Particle(0, 0, RADIUS_BASE * Q)
    /\ applied = <<>>
    /\ lastSpawn = NoSpawn

UnitForce ==
    /\ pc = "unit"
    /\ ForcePass(1)
    /\ pc' = "forced"
    /\ UNCHANGED <<connections, window, isOpen, idx, dt, frame, atEntry,
                   pEntry, mid, lastSpawn>>

UnitUpdate ==
    /\ pc \in { "unit", "forced" }
    /\ UpdateCall(1)
    /\ pc' = "updated"
    /\ UNCHANGED <<connections, window, isOpen, idx, dt, frame, atEntry,
                   applied, lastSpawn>>

UnitNext ==
    \/ UnitForce
    \/ UnitUpdate

UnitSpec == UnitInit /\ [][UnitNext]_vars

----------------------------------------------------------------------------
(* Properties *)

InArea(p) ==
    /\ p.radius <= p.x /\ p.x <= WIDTH * Q - p.radius
    /\ p.radius <= p.y /\ p.y <= HEIGHT * Q - p.radius

AfterUpdate == pc = "draw"
AfterForcePass == pc \in { "integrate", "forced" }
Others == DOMAIN applied \ { idx }
Crossover == (ATTRACTION * Q) \div REPULSION

\* C1: whenever the inner loop of ParticleSystem::update is about to compute
\* the forces on a particle, every particle still has the position it had on
\* entry to the update call (no particle was integrated before the force pass
\* of the frame is complete).
C1_ForcesFromEntryPositions ==
    pc = "force" =>
        \A k \in 1..Len(particles) :
            particles[k].x = atEntry[k].x /\ particles[k].y = atEntry[k].y

\* C2: after ParticleSystem::update every particle lies inside the area,
\* radius <= x <= WIDTH - radius and radius <= y <= HEIGHT - radius.
C2_Containment ==
    AfterUpdate => \A k \in 1..Len(particles) : InArea(particles[k])

C2_Witness ==
    /\ AfterUpdate
    /\ \E k \in 1..Len(atEntry) :
          atEntry[k].y > HEIGHT * Q /\ atEntry[k].x < atEntry[k].radius

\* C3: after Particle::update the speed is at most MAX_SPEED, both right after
\* the clamp of line 29 and at return, whatever the velocity on entry.
C3_SpeedClamp ==
    pc = "updated" =>
        /\ Speed(mid.vx, mid.vy) <= MAX_SPEED * Q
        /\ Speed(particles[1].vx, particles[1].vy) <= MAX_SPEED * Q

C3_Witness ==
    /\ pc = "updated"
    /\ Speed(atEntry[1].vx, atEntry[1].vy) <= MAX_SPEED * Q
    /\ Speed(pEntry.vx, pEntry.vy) > MAX_SPEED * Q
    /\ particles[1].vx # mid.vx

\* C4: at every draw call the connection list is exactly the list of the
\* pairs i < j whose current centres are less than 100 apart, with the
\* current positions as end points.
ClosePairs ==
    { ij \in (1..Len(particles)) \X (1..Len(particles)) :
        /\ ij[1] < ij[2]
        /\ (particles[ij[1]].x - particles[ij[2]].x) * (particles[ij[1]].x - particles[ij[2]].x)
           + (particles[ij[1]].y - particles[ij[2]].y) * (particles[ij[1]].y - particles[ij[2]].y)
           < (CONNECT_RADIUS * Q) * (CONNECT_RADIUS * Q) }

C4_ConnectionsCurrent ==
    pc = "draw" =>
        /\ Len(connections) = Cardinality(ClosePairs)
        /\ { <<connections[n].ax, connections[n].ay, connections[n].bx, connections[n].by>> :
               n \in 1..Len(connections) }
           = { <<particles[ij[1]].x, particles[ij[1]].y, particles[ij[2]].x, particles[ij[2]].y>> :
               ij \in ClosePairs }

C4_Witness ==
    /\ pc = "draw"
    /\ frame >= 1
    /\ Len(particles) > Len(window.circles)
    /\ connections # window.lines
    /\ window.lines # <<>>
    /\ \E ij \in ClosePairs : ij[2] = Len(particles)

\* C5 as claimed: the force received from another particle is zero exactly
\* when the distance is >= 100 or 0.
C5_ZeroOnlyOutside ==
    AfterForcePass =>
        \A j \in Others :
            LET dist == Distance(particles[idx], particles[j])
            IN (applied[j].force = <<0, 0>>)
                   <=> (dist >= INTERACTION_RADIUS * Q \/ dist = 0)

\* C5 amended: the force received from another particle is zero exactly when
\* the distance is >= 100, 0, or the crossover ATTRACTION / REPULSION = 5.
C5_ZeroOutsideOrCrossover ==
    AfterForcePass =>
        \A j \in Others :
            LET dist == Distance(particles[idx], particles[j])
            IN (applied[j].force = <<0, 0>>)
                   <=> (dist >= INTERACTION_RADIUS * Q \/ dist = 0 \/ dist = Crossover)

C5_Witness ==
    /\ AfterForcePass
    /\ \E j \in Others :
          /\ Distance(particles[idx], particles[j]) = Crossover
          /\ applied[j].hit
          /\ applied[j].force = <<0, 0>>
          /\ particles[idx].y # particles[j].y

\* C6 as claimed: for 0 < d < 100 the strength is positive for d > 5 and
\* negative for d < 5.
C6_AttractionAtLongRange ==
    AfterForcePass =>
        \A j \in Others :
            LET dist == Distance(particles[idx], particles[j])
            IN applied[j].hit =>
                   /\ dist > Crossover => applied[j].strength > 0
                   /\ dist < Crossover => applied[j].strength < 0

\* C6 amended: for 0 < d < 100 the strength is positive (the force points
\* toward the other particle) for d < 5, negative (the force points away) for
\* d > 5, and zero at the crossover d = ATTRACTION / REPULSION = 5.
C6_AttractionAtShortRange ==
    AfterForcePass =>
        \A j \in Others :
            LET dist == Distance(particles[idx], particles[j])
                along == applied[j].force[1] * (particles[j].x - particles[idx].x)
                         + applied[j].force[2] * (particles[j].y - particles[idx].y)
            IN applied[j].hit =>
                   /\ dist < Crossover => applied[j].strength > 0 /\ along > 0
                   /\ dist > Crossover => applied[j].strength < 0 /\ along < 0
                   /\ dist = Crossover => applied[j].strength = 0

C6_Witness ==
    /\ AfterForcePass
    /\ \E j \in Others :
          /\ applied[j].hit
          /\ Distance(particles[idx], particles[j]) < Crossover
          /\ applied[j].strength > 0
          /\ particles[idx].vx > atEntry[idx].vx
          /\ particles[j].x > particles[idx].x

\* the particles appended by the last addParticlesAtMouse call
Spawned == (Len(lastSpawn.prior) + 1) .. Len(particles)
AfterSpawn == pc = "events" /\ lastSpawn.count > 0
MouseAt == [x |-> lastSpawn.mouse[1] * Q, y |-> lastSpawn.mouse[2] * Q]
SpawnedExactly ==
    /\ Len(particles) = Len(lastSpawn.prior) + lastSpawn.count
    /\ SubSeq(particles, 1, Len(lastSpawn.prior)) = lastSpawn.prior
    /\ \A k \in Spawned : Distance(MouseAt, particles[k]) <= SPAWN_RADIUS * Q

C8_NoMotionAtZeroDt ==
    (AfterUpdate /\ dt = 0) => particles = atEntry

\* C8 amended: ParticleSystem::update with dt = 0 leaves every velocity as it
\* was, and leaves the position of every particle that was inside the area on
\* entry; a particle that was outside is moved onto the boundary it was beyond.
Clamp(v, lo, hi) == IF v < lo THEN lo ELSE IF v > hi THEN hi ELSE v

C8_NoMotionInsideAtZeroDt ==
    (AfterUpdate /\ dt = 0) =>
        /\ Len(particles) = Len(atEntry)
        /\ \A k \in 1..Len(particles) :
              /\ particles[k].vx = atEntry[k].vx
              /\ particles[k].vy = atEntry[k].vy
              /\ particles[k].x
                   = Clamp(atEntry[k].x, atEntry[k].radius, WIDTH * Q - atEntry[k].radius)
              /\ particles[k].y
                   = Clamp(atEntry[k].y, atEntry[k].radius, HEIGHT * Q - atEntry[k].radius)
              /\ InArea(atEntry[k]) => particles[k] = atEntry[k]

C8_Witness ==
    /\ AfterUpdate /\ dt = 0
    /\ \E k \in 1..Len(atEntry) : ~InArea(atEntry[k])
    /\ \E k \in 1..Len(atEntry) :
          InArea(atEntry[k]) /\ (atEntry[k].vx # 0 \/ atEntry[k].vy # 0)

\* a Particle::update call that started with velocity.x < 0 and crossed the
\* left boundary
LeftCrossing == pc = "updated" /\ pEntry.vx < 0 /\ mid.x - mid.radius < 0

\* C9 as claimed: a particle that enters Particle::update with velocity.x = -v,
\* v > 0, and crosses the left boundary ends with velocity.x = v * DAMPING and
\* position.x = radius.
C9_BounceFromEntryVelocity ==
    LeftCrossing =>
        /\ particles[1].vx = TDiv((-pEntry.vx) * DAMPING, Hundred)
        /\ particles[1].x = particles[1].radius

\* C9 amended: such a particle ends with position.x = radius and with
\* velocity.x = DAMPING times the magnitude of velocity.x after the speed clamp
\* of line 29; that is v * DAMPING whenever the speed after gravity is at most
\* MAX_SPEED.
C9_BounceFromClampedVelocity ==
    LeftCrossing =>
        /\ particles[1].x = particles[1].radius
        /\ mid.vx <= 0
        /\ particles[1].vx = TDiv((-mid.vx) * DAMPING, Hundred)
        /\ Speed(pEntry.vx, pEntry.vy + TDiv(GRAVITY * dt, Hundred)) <= MAX_SPEED * Q
               => particles[1].vx = TDiv((-pEntry.vx) * DAMPING, Hundred)

C9_Witness ==
    /\ LeftCrossing
    /\ mid.vx # pEntry.vx
    /\ pEntry.x >= pEntry.radius
    /\ dt > 0

\* C10: no step removes or moves a particle (the count never decreases, and
\* only the event phase changes it), and every particle keeps its radius and
\* its mass, with mass = radius * radius > 0.
C10_ParticlesKept ==
    [][ /\ Len(particles') >= Len(particles)
        /\ pc # "events" => Len(particles') = Len(particles)
        /\ \A k \in 1..Len(particles) :
              /\ particles'[k].radius = particles[k].radius
              /\ particles'[k].mass = particles[k].mass
        /\ \A k \in 1..Len(particles') :
              /\ particles'[k].mass = particles'[k].radius * particles'[k].radius
              /\ particles'[k].mass > 0 ]_vars

C10_Witness ==
    /\ pc = "done"
    /\ frame = MaxFrames
    /\ Len(particles) > Len(window.circles) - 1
    /\ Len(particles) = MaxParticles
    /\ \E k \in 1..Len(particles) : particles[k].vx # 0

====
